---- MODULE Spec2Model ----
(***************************************************************************)
(* Friend recommendations: the friends-of-friends engine                   *)
(* (logic/recomendation_model.py), the job handlers                        *)
(* (api/models/handlers.py) and the polling script (frontend/app.py).      *)
(*                                                                         *)
(* A parsed file is the sequence of its lines: the base file may name a    *)
(* user on several lines and a friend several times on a line, the         *)
(* secondary file may hold several records for one ID.  A DataFrame is a   *)
(* bag of rows, written as a set of rows that carry the lines they come    *)
(* from, so that equal rows of different origin stay apart.  Probabilities *)
(* are kept in tenths (3 stands for 0.3).  A text is the sequence of the   *)
(* fields and line ends written to it.  Where Spark leaves an order open   *)
(* (row_number over equal keys, collect without orderBy) every order is a  *)
(* possible outcome.                                                       *)
(***************************************************************************)
EXTENDS Integers, FiniteSets, Sequences, TLC

VARIABLES
    base_file,     \* parsed base file: the rows (user, friends), one per line
    base_ok,       \* FALSE: the base file raises while it is read (int() of a field, no lines)
    N,             \* N of the query string a client of the API sends (direct calls: N)
    demographics,  \* parsed secondary file: the rows (ID, gender, age, city, education)
    phase,         \* position of a direct call of the engine functions
    rows,          \* DataFrame returned by get_N_recommendation
    scored,        \* DataFrame returned by get_probability
    out1,          \* text produced by a first run of the pipeline
    out2,          \* text produced by a second run on the same input
    use_secondary_file, \* form field use_secondary_file of the submission
    secondary_file,     \* TRUE: a secondary file was uploaded
    calculate_status,   \* handlers.calculate_status: job id -> status
    pc,            \* position of each job's request and background task
    task_N,        \* the N add_task captured for each queued job
    collected_data,     \* collected_data of each running task
    files,         \* OUTPUT_FOLDER on disk: job id -> text of result_<id>.txt
    buffer,        \* text written to the open file object, not yet on disk
    response,      \* the last response a handler produced for a status or download request
    frontend,      \* frontend/app.py: position and locals of the polling script
    http           \* the script's request being handled, or its answer on the way back

inputs == <<base_file, base_ok, N, demographics, use_secondary_file, secondary_file>>
direct == <<phase, rows, scored, out1, out2>>
jobs == <<calculate_status, pc, task_N, collected_data, files, buffer, response>>
script == <<frontend, http>>
vars == <<inputs, direct, jobs, script>>

-----------------------------------------------------------------------------
(* Bounds of the model *)

MaxId == 2
MaxEntries == 3
MaxRecords == 2
MaxN == 2
MaxJobs == 1

Ids == 0 .. MaxId
JobIds == 1 .. MaxJobs

Min(a, b) == IF a < b THEN a ELSE b

(* one parsed line of the base file: (int(pair[0]), list of int) *)
Line(u, fs) == [user |-> u, friends |-> fs]

(* the shapes of the files whose lines list e friends in all: the number *)
(* of friends of each line, at least one (int('') raises on an empty      *)
(* list)                                                                   *)
RECURSIVE ShapesWith(_)
ShapesWith(e) ==
    IF e = 0 THEN {<<>>}
    ELSE UNION {{<<k>> \o s : s \in ShapesWith(e - k)} : k \in 1 .. e}

(* Every base file has one of these shapes: 1 .. MaxEntries friend        *)
(* entries in all.  A file without lines is not among them:               *)
(* createDataFrame cannot infer a schema from the empty list and raises.  *)
Shapes == UNION {ShapesWith(e) : e \in 1 .. MaxEntries}

RECURSIVE Total(_)
Total(shape) == IF shape = <<>> THEN 0 ELSE Head(shape) + Total(Tail(shape))

(* the file of that shape whose lines name the users us and list the      *)
(* friends es, in this order: lines in any order, a user on one or on     *)
(* several lines, repeats and the user itself among its friends           *)
BaseFile(shape, us, es) ==
    [i \in 1 .. Len(shape) |->
        Line(us[i], [k \in 1 .. shape[i] |-> es[Total(SubSeq(shape, 1, i - 1)) + k]])]

(* Base files of the documented scenarios: the triangle, the path, a user  *)
(* whose two candidates tie, a candidate reached through two friends with  *)
(* small ids beside one reached through one friend with a larger id, and   *)
(* two users sharing the same two candidates.                              *)
ScenarioTriangle == <<Line(1, <<2, 3>>), Line(2, <<1, 3>>), Line(3, <<1, 2>>)>>
ScenarioPath == <<Line(1, <<2>>), Line(2, <<1, 3>>), Line(3, <<2>>)>>
ScenarioTie == <<Line(1, <<2>>), Line(2, <<3, 4>>)>>
ScenarioSum ==
    <<Line(3, <<0, 1, 2>>), Line(0, <<4>>), Line(1, <<4>>), Line(2, <<5>>)>>
ScenarioShared ==
    <<Line(1, <<2, 6>>), Line(5, <<2, 6>>), Line(2, <<3, 4>>), Line(6, <<3>>)>>

ScenarioFiles ==
    {ScenarioTriangle, ScenarioPath, ScenarioTie, ScenarioSum, ScenarioShared}

-----------------------------------------------------------------------------
(* get_N_recommendation *)

(* sum("friend") over the rows of one group *)
RECURSIVE SumOf(_)
SumOf(S) == IF S = {} THEN 0
            ELSE LET x == CHOOSE y \in S : TRUE IN x.friend + SumOf(S \ {x})

(* df.withColumn("friend", explode(friends)): one row per line and        *)
(* position of its friend list                                             *)
friends_exploded(df) ==
    UNION {{[line |-> i, pos |-> k, user |-> df[i].user,
             friends |-> df[i].friends, friend |-> df[i].friends[k]] :
                k \in DOMAIN df[i].friends} : i \in DOMAIN df}

(* self join on df1.friend = df2.user: one row per matching pair *)
friends_of_friends(df) ==
    LET ex == friends_exploded(df)
    IN  {[df1 |-> <<e[1].line, e[1].pos>>, df2 |-> <<e[2].line, e[2].pos>>,
          user |-> e[1].user, friends |-> e[1].friends,
          friend |-> e[1].friend, fof |-> e[2].friend] :
            e \in {p \in ex \X ex : p[1].friend = p[2].user}}

(* array_contains(friends, fof): friends is the list of the row's line *)
array_contains(friends, x) == \E k \in DOMAIN friends : friends[k] = x

(* filter(user != fof), filter(~array_contains(friends, fof)) *)
recommendations_NoFriendFilter(df) ==
    {r \in friends_of_friends(df) : r.user # r.fof}

recommendations(df) ==
    {r \in friends_of_friends(df) : r.user # r.fof /\ ~array_contains(r.friends, r.fof)}

(* groupBy("user", "fof").agg(sum("friend")) *)
friend_recommendations(df) ==
    LET rec == recommendations(df)
    IN  {[user |-> p[1], fof |-> p[2],
          common_friends |-> SumOf({q \in rec : q.user = p[1] /\ q.fof = p[2]})] :
            p \in {<<r.user, r.fof>> : r \in rec}}

(* row_number() over (partition by user order by common_friends desc):    *)
(* within one partition a bijection onto 1..count that respects the       *)
(* ordering key; rows with equal keys may come in either order.           *)
RowNumberings_Dense(part) ==
    {[r \in part |-> 1 + Cardinality({q.common_friends : q \in
                         {s \in part : s.common_friends > r.common_friends}})]}

RowNumberings(part) ==
    {rn \in [part -> 1 .. Cardinality(part)] :
        /\ \A a, b \in part : a # b => rn[a] # rn[b]
        /\ \A a, b \in part : a.common_friends > b.common_friends => rn[a] < rn[b]}

(* withColumn("rank", ...).filter(rank <= N).select(user, fof, rank) for  *)
(* the partitions of the users in us: every DataFrame a run may return.   *)
RECURSIVE top_n_recommendations(_, _, _)
top_n_recommendations(fr, n, us) ==
    IF us = {} THEN {{}}
    ELSE LET u == CHOOSE v \in us : TRUE
             part == {r \in fr : r.user = u}
         IN  {rest \cup {[user |-> r.user, fof |-> r.fof, rank |-> rn[r]] :
                            r \in {q \in part : rn[q] <= n}} :
                rest \in top_n_recommendations(fr, n, us \ {u}),
                rn \in RowNumberings(part)}

get_N_recommendation(df, n) ==
    LET fr == friend_recommendations(df)
    IN  top_n_recommendations(fr, n, {r.user : r \in fr})

-----------------------------------------------------------------------------
(* get_probability *)

(* A column value of a joined row: NULL when the left join found no       *)
(* record for the id.                                                     *)
NullCol == [isnull |-> TRUE, v |-> 0]
Col(x) == [isnull |-> FALSE, v |-> x]

(* the lines of the secondary file a left join on ID pairs a row with:    *)
(* every line of that ID, or the line 0 of NULLs when there is none       *)
Matches(table, id) ==
    LET m == {i \in DOMAIN table : table[i].ID = id}
    IN  IF m = {} THEN {0} ELSE m

(* one renamed column of the joined line *)
Attr(table, i, field) ==
    IF i = 0 THEN NullCol ELSE Col(table[i][field])

(* SQL three-valued conditions: "T", "F" or "U" (NULL) *)
Eq3(a, b) == IF a.isnull \/ b.isnull THEN "U" ELSE IF a.v = b.v THEN "T" ELSE "F"
EqLit3(a, k) == IF a.isnull THEN "U" ELSE IF a.v = k THEN "T" ELSE "F"
And3(x, y) == IF x = "F" \/ y = "F" THEN "F"
              ELSE IF x = "T" /\ y = "T" THEN "T" ELSE "U"
Or3(x, y) == IF x = "T" \/ y = "T" THEN "T"
             ELSE IF x = "F" /\ y = "F" THEN "F" ELSE "U"
Abs(x) == IF x < 0 THEN 0 - x ELSE x
AbsDiff(a, b) == IF a.isnull \/ b.isnull THEN NullCol ELSE Col(Abs(a.v - b.v))
Lt3(a, k) == IF a.isnull THEN "U" ELSE IF a.v < k THEN "T" ELSE "F"
Ge3(a, k) == IF a.isnull THEN "U" ELSE IF a.v >= k THEN "T" ELSE "F"

(* when(user_age == potential_friend_gender, 0.3).otherwise(0.1) *)
GenderTerm(user_gender, user_age, potential_friend_gender) ==
    IF Eq3(user_age, potential_friend_gender) = "T" THEN 3 ELSE 1

(* when(|d| < 5, p + 0.4).when(|d| < 10, p + 0.2).when(|d| >= 10, p - 0.2) *)
(* .otherwise(p)                                                           *)
AgeTerm(p, user_age, potential_friend_age) ==
    LET d == AbsDiff(user_age, potential_friend_age)
    IN  IF Lt3(d, 5) = "T" THEN p + 4
        ELSE IF Lt3(d, 10) = "T" THEN p + 2
        ELSE IF Ge3(d, 10) = "T" THEN p - 2
        ELSE p

(* when(user_city == potential_friend_city, p + 0.5).otherwise(p) *)
CityTerm(p, user_city, potential_friend_city) ==
    IF Eq3(user_city, potential_friend_city) = "T" THEN p + 5 ELSE p

(* when(ue == 1 & pe == 1, p + 0.3).when(ue == 1 | pe == 1, p + 0.1)       *)
(* .otherwise(p)                                                           *)
EducationTerm(p, user_education, potential_friend_education) ==
    LET ue == EqLit3(user_education, 1)
        pe == EqLit3(potential_friend_education, 1)
    IN  IF And3(ue, pe) = "T" THEN p + 3
        ELSE IF Or3(ue, pe) = "T" THEN p + 1
        ELSE p

(* when(p > 1, 1).when(p < 0, 0).otherwise(p) *)
Clamp_NoLower(p) == IF p > 10 THEN 10 ELSE p

Clamp(p) == IF p > 10 THEN 10 ELSE IF p < 0 THEN 0 ELSE p

(* the probability column before the final clamping step, for a row       *)
(* joined with the lines ui (user) and fi (potential friend)              *)
RawProbability(table, ui, fi) ==
    EducationTerm(
        CityTerm(
            AgeTerm(
                GenderTerm(Attr(table, ui, "gender"), Attr(table, ui, "age"),
                           Attr(table, fi, "gender")),
                Attr(table, ui, "age"), Attr(table, fi, "age")),
            Attr(table, ui, "city"), Attr(table, fi, "city")),
        Attr(table, ui, "education"), Attr(table, fi, "education"))

(* both left joins keep every row of top_n_recommendations and give one   *)
(* row per matching record; the probability column is never NULL          *)
get_probability(top_n, table) ==
    UNION {{[user |-> r.user, fof |-> r.fof, rank |-> r.rank,
             user_line |-> ui, potential_friend_line |-> fi,
             probability |-> Col(Clamp(RawProbability(table, ui, fi)))] :
                ui \in Matches(table, r.user), fi \in Matches(table, r.fof)} :
           r \in top_n}

-----------------------------------------------------------------------------
(* Secondary files *)

Genders == {0, 1}
Ages == {1, 6, 11}
Cities == {0, 1}
Educations == {0, 1}

DemoIds == {1, 3, 4}

(* one parsed line of the secondary file *)
Records ==
    [ID : DemoIds, gender : Genders, age : Ages, city : Cities, education : Educations]

(* the secondary files of k lines, an ID on one or on several lines *)
SecondaryFiles(k) == [1 .. k -> Records]

-----------------------------------------------------------------------------
(* Direct calls of the engine on every bounded base file *)

NoFile == <<>>

(* the base file is one of the scenarios or any file over Ids within the  *)
(* bound                                                                  *)
InitBaseFile ==
    \/ base_file \in ScenarioFiles
    \/ \E shape \in Shapes :
          \E us \in [1 .. Len(shape) -> Ids] :
              \E es \in [1 .. Total(shape) -> Ids] :
                  base_file = BaseFile(shape, us, es)

(* the secondary file has 1 .. MaxRecords lines; from a file without      *)
(* lines createDataFrame raises (the RDD is empty)                        *)
InitSecondaryFile ==
    \E k \in 1 .. MaxRecords : demographics \in SecondaryFiles(k)

NoTable == [i \in {} |-> 0]

NoResponse == [op |-> "none", id |-> 0, status |-> "", file_url |-> FALSE,
               found |-> FALSE, body |-> <<>>]

(* the frontend script before the button is pressed *)
FrontendIdle == [pc |-> "idle", calculate_id |-> 0, status |-> "", file_url |-> FALSE]

(* no request of the script is under way *)
NoAnswer == [op |-> "none", id |-> 0, status |-> "", file_url |-> FALSE]

(* no job was submitted *)
JobsIdle ==
    /\ frontend = FrontendIdle
    /\ http = NoAnswer
    /\ use_secondary_file = FALSE
    /\ secondary_file = FALSE
    /\ calculate_status = NoTable
    /\ pc = [j \in JobIds |-> "none"]
    /\ task_N = NoTable
    /\ collected_data = [j \in JobIds |-> <<>>]
    /\ files = NoTable
    /\ buffer = [j \in JobIds |-> <<>>]
    /\ response = NoResponse

(* no direct call of the engine functions *)
DirectIdle ==
    /\ phase = "start"
    /\ rows = {}
    /\ scored = {}
    /\ out1 = <<>>
    /\ out2 = <<>>

InitEngine ==
    /\ InitBaseFile
    /\ base_ok = TRUE
    /\ N \in 1 .. MaxN
    /\ demographics = NoFile
    /\ DirectIdle
    /\ JobsIdle

Recommend ==
    /\ phase = "start"
    /\ rows' \in get_N_recommendation(base_file, N)
    /\ phase' = "ranked"
    /\ UNCHANGED <<script, inputs, jobs, scored, out1, out2>>

NextEngine == Recommend

SpecEngine == InitEngine /\ [][NextEngine]_vars

-----------------------------------------------------------------------------
(* Properties of the rows returned by get_N_recommendation *)

(* the file is a friendship relation: no user is named on two lines *)
IsRelation(df) ==
    \A i, k \in DOMAIN df : i # k => df[i].user # df[k].user

Users(df) == {df[i].user : i \in DOMAIN df}

(* the friends the file declares for u *)
Friends(df, u) ==
    UNION {{df[i].friends[k] : k \in DOMAIN df[i].friends} :
              i \in {l \in DOMAIN df : df[l].user = u}}

(* friends of friends of u that are neither u nor declared friends of u *)
Eligible(df, u) ==
    {c \in UNION {Friends(df, f) : f \in Friends(df, u)} :
        c # u /\ c \notin Friends(df, u)}

RowsOf(frame, u) == {r \in frame : r.user = u}

(* C1: no returned row recommends the user itself or one of the friends   *)
(* the base file declares for that user, for every relation (one-way and  *)
(* self-listing entries included) and every N >= 1.                       *)
C1_NoSelfNoFriend ==
    (phase = "ranked" /\ N >= 1 /\ IsRelation(base_file)) =>
        \A r \in rows : r.fof # r.user /\ r.fof \notin Friends(base_file, r.user)

(* a user that lists itself, in a one-way relation, gets a row *)
C1_Witness ==
    /\ phase = "ranked"
    /\ IsRelation(base_file)
    /\ \E r \in rows :
          /\ r.user \in Friends(base_file, r.user)
          /\ \E f \in Friends(base_file, r.user) : r.user \notin Friends(base_file, f)

(* commonFriendCount(U, C) = |{F : F in friends(U) and C in friends(F)}| *)
CommonFriendCount(df, u, c) ==
    Cardinality({f \in Friends(df, u) : c \in Friends(df, f)})

(* C2: for a relation, the rows of a user are ranked by common-friend     *)
(* count, descending, and keep the N candidates with the highest count: a *)
(* kept candidate never has a strictly smaller count than a dropped       *)
(* eligible one.                                                          *)
C2_RankedByCommonFriendCount ==
    (phase = "ranked" /\ IsRelation(base_file)) =>
        \A r \in rows :
            /\ \A q \in RowsOf(rows, r.user) :
                  CommonFriendCount(base_file, r.user, r.fof)
                      > CommonFriendCount(base_file, r.user, q.fof) => r.rank < q.rank
            /\ \A d \in Eligible(base_file, r.user) \ {q.fof : q \in RowsOf(rows, r.user)} :
                  CommonFriendCount(base_file, r.user, r.fof)
                      >= CommonFriendCount(base_file, r.user, d)

(* C4: for a relation and every user the ranks of the returned rows are   *)
(* exactly 1..min(N, eligibleCount), each used once; so at most N rows    *)
(* per user and no row for a user without eligible candidate.             *)
C4_DenseRanks ==
    (phase = "ranked" /\ N >= 1 /\ IsRelation(base_file)) =>
        \A u \in Users(base_file) \cup {r.user : r \in rows} :
            LET k == Min(N, Cardinality(Eligible(base_file, u)))
            IN  /\ {r.rank : r \in RowsOf(rows, u)} = 1 .. k
                /\ Cardinality(RowsOf(rows, u)) = k

(* a user with more eligible candidates than N, cut to N rows, beside a   *)
(* user with no eligible candidate                                        *)
C4_Witness ==
    /\ phase = "ranked"
    /\ IsRelation(base_file)
    /\ \E u \in Users(base_file) :
          /\ Cardinality(Eligible(base_file, u)) > N
          /\ Cardinality(RowsOf(rows, u)) = N
    /\ \E u \in Users(base_file) : RowsOf(rows, u) = {}

-----------------------------------------------------------------------------
(* Direct calls of the scorer: all the recommendations of one base file   *)
(* (N = MaxN keeps every candidate) joined with every bounded secondary   *)
(* file                                                                   *)

InitScore ==
    /\ base_file = ScenarioShared
    /\ base_ok = TRUE
    /\ N = MaxN
    /\ InitSecondaryFile
    /\ DirectIdle
    /\ JobsIdle

Score ==
    /\ phase = "start"
    /\ \E df \in get_N_recommendation(base_file, N) :
          /\ rows' = df
          /\ scored' = get_probability(df, demographics)
    /\ phase' = "scored"
    /\ UNCHANGED <<script, inputs, jobs, out1, out2>>

NextScore == Score

SpecScore == InitScore /\ [][NextScore]_vars

-----------------------------------------------------------------------------
(* Properties of the rows returned by get_probability *)

(* the row was joined with a record of its user, of its candidate *)
Present(i) == i # 0

(* the documented weights, in tenths, for the records u and c *)
DocGender(u, c) == IF u.gender = c.gender THEN 3 ELSE 1
DocAge(u, c) ==
    LET d == Abs(u.age - c.age)
    IN  IF d < 5 THEN 4 ELSE IF d < 10 THEN 2 ELSE 0 - 2
DocCity(u, c) == IF u.city = c.city THEN 5 ELSE 0
DocEducation(u, c) ==
    IF u.education = 1 /\ c.education = 1 THEN 3
    ELSE IF u.education = 1 \/ c.education = 1 THEN 1 ELSE 0
DocSum(u, c) == DocGender(u, c) + DocAge(u, c) + DocCity(u, c) + DocEducation(u, c)
DocProbability(u, c) ==
    IF DocSum(u, c) > 10 THEN 10 ELSE IF DocSum(u, c) < 0 THEN 0 ELSE DocSum(u, c)

(* C5: with both records present the probability is                       *)
(* clamp(g + a + c + e, 0, 1), g being 0.3 for equal genders and 0.1      *)
(* otherwise.                                                             *)
C5_DocumentedFormula ==
    phase = "scored" =>
        \A r \in scored :
            (Present(r.user_line) /\ Present(r.potential_friend_line)) =>
                /\ ~r.probability.isnull
                /\ r.probability.v =
                       DocProbability(demographics[r.user_line],
                                      demographics[r.potential_friend_line])

(* C6: every probability of a scored row is a number in [0.0, 1.0],       *)
(* whatever the attributes of the two users, and also when one or both    *)
(* records are missing.                                                   *)
C6_ProbabilityInRange ==
    phase = "scored" =>
        \A r \in scored :
            /\ ~r.probability.isnull
            /\ 0 <= r.probability.v
            /\ r.probability.v <= 10

(* one scored frame holding a sum below 0 raised to 0, a row with one     *)
(* record missing and a row with both records missing                     *)
C6_Witness ==
    /\ phase = "scored"
    /\ \E r \in scored :
          /\ RawProbability(demographics, r.user_line, r.potential_friend_line) < 0
          /\ r.probability.v = 0
    /\ \E r \in scored : Present(r.user_line) # Present(r.potential_friend_line)
    /\ \E r \in scored : ~Present(r.user_line) /\ ~Present(r.potential_friend_line)

(* C7: a row whose user or candidate has no record is kept and carries    *)
(* no computed score (the probability is unset).                          *)
C7_IncompleteMarked ==
    phase = "scored" =>
        /\ {<<r.user, r.fof>> : r \in scored} = {<<r.user, r.fof>> : r \in rows}
        /\ \A r \in scored :
              (~Present(r.user_line) \/ ~Present(r.potential_friend_line))
                  => r.probability.isnull

-----------------------------------------------------------------------------
(* calculate_recomendations, from the DataFrame to the text of the file *)

(* DataFrame.collect(): the rows as a list, in the order of Spark's       *)
(* partitions; no orderBy fixes it.                                       *)
RECURSIVE collect(_)
collect(df) ==
    IF df = {} THEN {<<>>}
    ELSE UNION {{<<r>> \o rest : rest \in collect(df \ {r})} : r \in df}

(* f"{row['user']} {row['fof']}\n" or, with a secondary file,             *)
(* f"{row['user']} {row['fof']}, {row['probability']}\n": the fields as   *)
(* text, then the line end                                                *)
FormatLine(row, with_probability) ==
    IF with_probability
    THEN <<ToString(row.user), ToString(row.fof), ToString(row.probability.v), "\n">>
    ELSE <<ToString(row.user), ToString(row.fof), "\n">>

(* the text the loop writes for the rows of data, in their order *)
RECURSIVE FormatLines(_, _)
FormatLines(data, with_probability) ==
    IF data = <<>> THEN <<>>
    ELSE FormatLine(Head(data), with_probability)
             \o FormatLines(Tail(data), with_probability)

-----------------------------------------------------------------------------
(* Two runs of the pipeline on the same base file and N *)

InitRerun ==
    /\ InitBaseFile
    /\ base_ok = TRUE
    /\ N \in 1 .. MaxN
    /\ demographics = NoFile
    /\ DirectIdle
    /\ JobsIdle

FirstRun ==
    /\ phase = "start"
    /\ \E df \in get_N_recommendation(base_file, N) :
          /\ rows' = df
          /\ \E data \in collect(df) : out1' = FormatLines(data, FALSE)
    /\ phase' = "ran_once"
    /\ UNCHANGED <<script, inputs, jobs, scored, out2>>

SecondRun ==
    /\ phase = "ran_once"
    /\ \E df \in get_N_recommendation(base_file, N) :
          /\ rows' = df
          /\ \E data \in collect(df) : out2' = FormatLines(data, FALSE)
    /\ phase' = "ran_twice"
    /\ UNCHANGED <<script, inputs, jobs, scored, out1>>

NextRerun == FirstRun \/ SecondRun

SpecRerun == InitRerun /\ [][NextRerun]_vars

(* C3: two runs on the same base relation and the same N write the same   *)
(* text.                                                                  *)
C3_SameOutputOnRerun ==
    (phase = "ran_twice" /\ IsRelation(base_file)) => out1 = out2

-----------------------------------------------------------------------------
(* The job handlers: start_calculate, the background task                 *)
(* calculate_recomendations, get_calculate_status and download_file.      *)
(* Every job of a run is submitted with the same upload.                  *)

JobFiles == {ScenarioPath, ScenarioTie}

(* a secondary file with records for the users 1 and 3 only *)
JobTable ==
    <<[ID |-> 1, gender |-> 1, age |-> 6, city |-> 0, education |-> 1],
      [ID |-> 3, gender |-> 1, age |-> 11, city |-> 0, education |-> 0]>>

(* ids a client may ask about: the job ids, and 0 that is never issued *)
RequestIds == 0 .. MaxJobs

Init ==
    /\ base_ok \in BOOLEAN
    /\ base_file \in (IF base_ok THEN JobFiles ELSE {NoFile})
    /\ N \in 0 .. MaxN
    /\ use_secondary_file \in BOOLEAN
    /\ secondary_file \in BOOLEAN
    /\ demographics = (IF secondary_file THEN JobTable ELSE NoFile)
    /\ DirectIdle
    /\ calculate_status = NoTable
    /\ pc = [j \in JobIds |-> "none"]
    /\ task_N = NoTable
    /\ collected_data = [j \in JobIds |-> <<>>]
    /\ files = NoTable
    /\ buffer = [j \in JobIds |-> <<>>]
    /\ response = NoResponse
    /\ frontend = FrontendIdle
    /\ http = NoAnswer

(* secondary_file_path is set when use_secondary_file and secondary_file *)
secondary_file_path == use_secondary_file /\ secondary_file

(* "if secondary_file_path and use_secondary_file" *)
with_probability == secondary_file_path /\ use_secondary_file

(* "N: int = 1" of the handler is a query parameter: a request that does  *)
(* not carry N in its query string runs with this default                 *)
DefaultN == 1

(* POST /calculate/ up to its first await: a fresh id, status pending;    *)
(* no task is queued yet                                                  *)
start_calculate_pending(j) ==
    /\ j \notin DOMAIN calculate_status
    /\ j = Cardinality(DOMAIN calculate_status) + 1
    /\ calculate_status' = calculate_status @@ (j :> "pending")
    /\ pc' = [pc EXCEPT ![j] = "accepted"]
    /\ UNCHANGED <<task_N, inputs, direct, collected_data, files, buffer, response>>

(* the uploads are stored: add_task queues the task with the N the        *)
(* handler bound, and the handler returns the id                          *)
start_calculate_add_task(j, n) ==
    /\ pc[j] = "accepted"
    /\ task_N' = task_N @@ (j :> n)
    /\ pc' = [pc EXCEPT ![j] = "queued"]
    /\ UNCHANGED <<inputs, direct, calculate_status, collected_data, files, buffer, response>>

(* storing an upload raises: the request ends without a task and the job  *)
(* stays pending                                                          *)
start_calculate_raise(j) ==
    /\ pc[j] = "accepted"
    /\ pc' = [pc EXCEPT ![j] = "rejected"]
    /\ UNCHANGED <<task_N, inputs, direct, calculate_status, collected_data, files, buffer, response>>

(* the request of job j was sent by the frontend script *)
SentByFrontend(j) == http.op = "post" /\ http.id = j

(* POST /calculate/?N=<N> sent by a client of the API *)
start_calculate(j) ==
    /\ \/ start_calculate_pending(j)
       \/ ~SentByFrontend(j) /\ start_calculate_add_task(j, N)
       \/ ~SentByFrontend(j) /\ start_calculate_raise(j)
    /\ UNCHANGED script

(* calculate_status[calculate_id] = "in_progress" *)
TaskStart(j) ==
    /\ pc[j] = "queued"
    /\ calculate_status' = [calculate_status EXCEPT ![j] = "in_progress"]
    /\ pc' = [pc EXCEPT ![j] = "started"]
    /\ UNCHANGED <<script, task_N, inputs, direct, collected_data, files, buffer, response>>

(* get_N_recommendation, get_probability and collect(); a base file that  *)
(* does not parse raises out of the task                                  *)
TaskCompute(j) ==
    /\ pc[j] = "started"
    /\ \/ /\ ~base_ok
          /\ pc' = [pc EXCEPT ![j] = "raised"]
          /\ UNCHANGED collected_data
       \/ /\ base_ok
          /\ \E df \in get_N_recommendation(base_file, task_N[j]) :
                \E data \in collect(IF with_probability
                                    THEN get_probability(df, demographics)
                                    ELSE df) :
                    collected_data' = [collected_data EXCEPT ![j] = data]
          /\ pc' = [pc EXCEPT ![j] = "collected"]
    /\ UNCHANGED <<script, task_N, inputs, direct, calculate_status, files, buffer, response>>

(* open(result_file, "w") creates the empty file *)
TaskOpen(j) ==
    /\ pc[j] = "collected"
    /\ files' = (j :> <<>>) @@ files
    /\ pc' = [pc EXCEPT ![j] = "writing"]
    /\ UNCHANGED <<script, task_N, inputs, direct, calculate_status, collected_data, buffer, response>>

(* the rows the loop has written: their text is what is on disk and in    *)
(* the buffer                                                             *)
LinesWritten(j) ==
    CHOOSE k \in 0 .. Len(collected_data[j]) :
        Len(FormatLines(SubSeq(collected_data[j], 1, k), with_probability))
            = Len(files[j]) + Len(buffer[j])

(* f.write of the next row: the line goes to the file object's buffer *)
TaskWrite(j) ==
    /\ pc[j] = "writing"
    /\ LinesWritten(j) < Len(collected_data[j])
    /\ buffer' = [buffer EXCEPT ![j] =
          @ \o FormatLine(collected_data[j][LinesWritten(j) + 1], with_probability)]
    /\ UNCHANGED <<script, task_N, inputs, direct, calculate_status, pc, collected_data, files, response>>

(* the file object flushes its buffer, inside f.write when the buffer is  *)
(* full or inside close(): write(2) moves the whole buffer to the disk,   *)
(* or, the disk filling, only the part that fits, and the rest stays      *)
(* buffered                                                               *)
TaskFlush(j) ==
    /\ pc[j] \in {"writing", "status_set"}
    /\ \E k \in 1 .. Len(buffer[j]) :
          /\ files' = [files EXCEPT ![j] = @ \o SubSeq(buffer[j], 1, k)]
          /\ buffer' = [buffer EXCEPT ![j] = SubSeq(@, k + 1, Len(@))]
    /\ UNCHANGED <<script, task_N, inputs, direct, calculate_status, pc, collected_data, response>>

(* f.write raises OSError (the disk is full) after the part of the        *)
(* pending text that fits was written; the with block closes the file,    *)
(* the rest is lost and the task ends                                     *)
TaskWriteFail(j) ==
    /\ pc[j] = "writing"
    /\ LinesWritten(j) < Len(collected_data[j])
    /\ LET pending == buffer[j] \o
               FormatLine(collected_data[j][LinesWritten(j) + 1], with_probability)
       IN  \E k \in 0 .. Len(pending) - 1 :
               files' = [files EXCEPT ![j] = @ \o SubSeq(pending, 1, k)]
    /\ buffer' = [buffer EXCEPT ![j] = <<>>]
    /\ pc' = [pc EXCEPT ![j] = "raised"]
    /\ UNCHANGED <<script, task_N, inputs, direct, calculate_status, collected_data, response>>

(* calculate_status[calculate_id] = "completed", inside the with block *)
TaskSetCompleted(j) ==
    /\ pc[j] = "writing"
    /\ LinesWritten(j) = Len(collected_data[j])
    /\ calculate_status' = [calculate_status EXCEPT ![j] = "completed"]
    /\ pc' = [pc EXCEPT ![j] = "status_set"]
    /\ UNCHANGED <<script, task_N, inputs, direct, collected_data, files, buffer, response>>

(* leaving the with block closes the file, but the flush of close()       *)
(* raises after the part of the buffer that fits was written: the rest is *)
(* lost, the exception leaves the task and the status stays completed     *)
TaskCloseFail(j) ==
    /\ pc[j] = "status_set"
    /\ buffer[j] # <<>>
    /\ \E k \in 0 .. Len(buffer[j]) - 1 :
          files' = [files EXCEPT ![j] = @ \o SubSeq(buffer[j], 1, k)]
    /\ buffer' = [buffer EXCEPT ![j] = <<>>]
    /\ pc' = [pc EXCEPT ![j] = "raised"]
    /\ UNCHANGED <<script, task_N, inputs, direct, calculate_status, collected_data, response>>

(* leaving the with block closes the file: the buffer reaches the disk *)
TaskClose(j) ==
    /\ pc[j] = "status_set"
    /\ files' = [files EXCEPT ![j] = @ \o buffer[j]]
    /\ buffer' = [buffer EXCEPT ![j] = <<>>]
    /\ pc' = [pc EXCEPT ![j] = "returned"]
    /\ UNCHANGED <<script, task_N, inputs, direct, calculate_status, collected_data, response>>

calculate_recomendations(j) ==
    \/ TaskStart(j)
    \/ TaskCompute(j)
    \/ TaskOpen(j)
    \/ TaskWrite(j)
    \/ TaskFlush(j)
    \/ TaskWriteFail(j)
    \/ TaskSetCompleted(j)
    \/ TaskCloseFail(j)
    \/ TaskClose(j)

(* GET /check-calculate-status/{calculate_id} *)
get_calculate_status_UrlForKnownId(id) ==
    LET status == IF id \in DOMAIN calculate_status
                  THEN calculate_status[id] ELSE "not_found"
    IN  [op |-> "status", id |-> id, status |-> status,
         file_url |-> (status # "not_found"), found |-> FALSE, body |-> <<>>]

get_calculate_status(id) ==
    LET status == IF id \in DOMAIN calculate_status
                  THEN calculate_status[id] ELSE "not_found"
    IN  [op |-> "status", id |-> id, status |-> status,
         file_url |-> (status = "completed"), found |-> FALSE, body |-> <<>>]

(* a status request of a client of the API *)
CheckCalculateStatus(id) ==
    /\ response' = get_calculate_status(id)
    /\ UNCHANGED <<script, task_N, inputs, direct, calculate_status, pc, collected_data, files, buffer>>

(* GET /download-result/{calculate_id}: the file when it exists on disk *)
download_file(id) ==
    IF id \in DOMAIN files
    THEN [op |-> "download", id |-> id, status |-> "", file_url |-> FALSE,
          found |-> TRUE, body |-> files[id]]
    ELSE [op |-> "download", id |-> id, status |-> "", file_url |-> FALSE,
          found |-> FALSE, body |-> <<>>]

DownloadResult(id) ==
    /\ response' = download_file(id)
    /\ UNCHANGED <<script, task_N, inputs, direct, calculate_status, pc, collected_data, files, buffer>>

Next ==
    \/ \E j \in JobIds : start_calculate(j)
    \/ \E j \in JobIds : calculate_recomendations(j)
    \/ \E id \in RequestIds : CheckCalculateStatus(id)
    \/ \E id \in RequestIds : DownloadResult(id)

Spec == Init /\ [][Next]_vars

(* The jobs as the status endpoint sees them: uploads without a secondary *)
(* file, and clients that ask for the status only.  download_file reads   *)
(* the disk and writes nothing that get_calculate_status reads.           *)
InitStatus == Init /\ ~use_secondary_file /\ ~secondary_file

NextStatus ==
    \/ \E j \in JobIds : start_calculate(j)
    \/ \E j \in JobIds : calculate_recomendations(j)
    \/ \E id \in RequestIds : CheckCalculateStatus(id)

SpecStatus == InitStatus /\ [][NextStatus]_vars

-----------------------------------------------------------------------------
(* Properties of the jobs *)

(* C8: a job submitted with N < 1 is rejected before any computation: it  *)
(* never becomes completed and no result file is produced for it.         *)
C8_InvalidNRejected ==
    \A j \in DOMAIN task_N :
        task_N[j] < 1 => calculate_status[j] # "completed" /\ j \notin DOMAIN files

(* C9: a job whose background computation raised has status failed (it    *)
(* does not stay in_progress).                                            *)
C9_RaisedJobIsFailed ==
    \A j \in JobIds : pc[j] = "raised" => calculate_status[j] = "failed"

(* C10: for a job whose computation raised, at any point, download-result *)
(* returns no file.                                                       *)
C10_NoFileForFailedJob ==
    \A j \in JobIds : pc[j] = "raised" => ~download_file(j).found

(* C11: a status request answers with the status stored for the id,       *)
(* not_found for an id that was never submitted, and with file_url        *)
(* exactly when that status is completed; it changes no job's status.     *)
C11_StatusReported ==
    [][(response' # response /\ response'.op = "status") =>
          /\ calculate_status' = calculate_status
          /\ response'.id \in DOMAIN calculate_status =>
                response'.status = calculate_status[response'.id]
          /\ response'.id \notin DOMAIN calculate_status =>
                response'.status = "not_found"
          /\ response'.file_url <=> (response'.status = "completed")]_vars

(* a status request answered completed, with the file_url, for a          *)
(* submitted job                                                          *)
C11_Witness ==
    /\ response.op = "status"
    /\ response.id \in DOMAIN calculate_status
    /\ response.status = "completed"
    /\ calculate_status[response.id] = "completed"
    /\ response.file_url

(* C12: whenever the status of a job reads completed, its result file on  *)
(* disk holds every output line, so a download issued then returns the    *)
(* full output.                                                           *)
C12_CompletedMeansFileWritten ==
    \A j \in DOMAIN calculate_status :
        calculate_status[j] = "completed" =>
            /\ download_file(j).found
            /\ download_file(j).body = FormatLines(collected_data[j], with_probability)

-----------------------------------------------------------------------------
(* The frontend script (frontend/app.py) beside the handlers.  The script *)
(* and the backend are two processes: an answer of a handler reaches the  *)
(* script in a later step, and the task may run in between.               *)

(* the button: requests.post sends the upload and the handler takes it.   *)
(* The slider value travels as a form field, which the handler does not   *)
(* read.                                                                  *)
FrontendStartCalculate(j) ==
    /\ frontend.pc = "idle"
    /\ start_calculate_pending(j)
    /\ frontend' = [frontend EXCEPT !.pc = "posting"]
    /\ http' = [NoAnswer EXCEPT !.op = "post", !.id = j]

(* the handler of the script's request queues the task with its default   *)
(* N and returns the id                                                   *)
FrontendRequestAddTask(j) ==
    /\ SentByFrontend(j)
    /\ start_calculate_add_task(j, DefaultN)
    /\ http' = [NoAnswer EXCEPT !.op = "id", !.id = j]
    /\ UNCHANGED frontend

(* the handler of the script's request raises: the answer is not 200 *)
FrontendRequestRaise(j) ==
    /\ SentByFrontend(j)
    /\ start_calculate_raise(j)
    /\ http' = [NoAnswer EXCEPT !.op = "error"]
    /\ UNCHANGED frontend

(* requests.post returns the id: status = "in_progress", file_url = None *)
FrontendReceiveId ==
    /\ frontend.pc = "posting"
    /\ http.op = "id"
    /\ frontend' = [pc |-> "polling", calculate_id |-> http.id,
                    status |-> "in_progress", file_url |-> FALSE]
    /\ http' = NoAnswer
    /\ UNCHANGED <<inputs, direct, jobs>>

(* requests.post returns an error: start_calculate returns None and the   *)
(* script shows the error                                                 *)
FrontendReceiveError ==
    /\ frontend.pc = "posting"
    /\ http.op = "error"
    /\ frontend' = [frontend EXCEPT !.pc = "error"]
    /\ http' = NoAnswer
    /\ UNCHANGED <<inputs, direct, jobs>>

(* one turn of "while status == 'in_progress'": requests.get asks for the *)
(* status and the handler answers                                         *)
FrontendPoll ==
    /\ frontend.pc = "polling"
    /\ frontend.status = "in_progress"
    /\ http = NoAnswer
    /\ LET r == get_calculate_status(frontend.calculate_id)
       IN  /\ response' = r
           /\ http' = [op |-> "status", id |-> r.id, status |-> r.status,
                       file_url |-> r.file_url]
    /\ UNCHANGED <<frontend, task_N, inputs, direct, calculate_status, pc,
                   collected_data, files, buffer>>

(* requests.get returns: the script keeps the status of the answer and,   *)
(* when it is completed, the file_url                                     *)
FrontendReceiveStatus ==
    /\ frontend.pc = "polling"
    /\ http.op = "status"
    /\ frontend' = [frontend EXCEPT
           !.status = http.status,
           !.file_url = IF http.status = "completed" THEN http.file_url ELSE @]
    /\ http' = NoAnswer
    /\ UNCHANGED <<inputs, direct, jobs>>

(* the loop is left: "if file_url" shows the download link, otherwise the *)
(* script ends without it                                                 *)
FrontendFinish ==
    /\ frontend.pc = "polling"
    /\ frontend.status # "in_progress"
    /\ frontend' = [frontend EXCEPT
           !.pc = IF frontend.file_url THEN "link_shown" ELSE "ended"]
    /\ UNCHANGED <<http, inputs, direct, jobs>>

NextFrontend ==
    \/ \E j \in JobIds : FrontendStartCalculate(j)
    \/ \E j \in JobIds : FrontendRequestAddTask(j)
    \/ \E j \in JobIds : FrontendRequestRaise(j)
    \/ FrontendReceiveId
    \/ FrontendReceiveError
    \/ FrontendPoll
    \/ FrontendReceiveStatus
    \/ FrontendFinish
    \/ \E j \in JobIds : start_calculate(j)
    \/ \E j \in JobIds : calculate_recomendations(j)
    \/ \E id \in RequestIds : CheckCalculateStatus(id)
    \/ \E id \in RequestIds : DownloadResult(id)

SpecFrontend == Init /\ [][NextFrontend]_vars

(* C13: after a submission the polling loop leads to the download link    *)
(* whenever the job completes, whatever the first poll observes: the      *)
(* script never ends without the link for a job that is completed.        *)
C13_CompletedJobShowsLink ==
    frontend.pc = "ended" => calculate_status[frontend.calculate_id] # "completed"

====
